---- MODULE Spec2Model ----
(***************************************************************************)
(* A model of the gqlclient package (src/gqlclient/gqlclient.go): a        *)
(* GraphQL-over-HTTP client.  CreateClient builds a handle, Query posts a  *)
(* JSON envelope through the package's httpClient and unmarshals the       *)
(* answer into the caller's QueryResponse.                                 *)
(*                                                                         *)
(* Go values are modelled as records of one shape per variable.  A Go      *)
(* string that the code inspects character by character (the query text)   *)
(* is a sequence of one-character strings; every other Go string is a TLA+ *)
(* string.  The HTTP endpoint and the network are the environment: the     *)
(* action httpClientDo picks what httpClient.Do gives back.                *)
(***************************************************************************)
EXTENDS Integers, Sequences, FiniteSets, TLC

VARIABLES
    gc,          \* the handle CreateClient returned: targetURL, authorization
    createdURL,  \* the targetURL argument CreateClient was called with
    createdAuth, \* what the authorization argument pointed to when CreateClient was called
    githubToken, \* the caller's string variable whose address is the authorization
    input,       \* the text a direct call of packQuery is given
    output,      \* what that call of packQuery returned
    queryStr,    \* per caller: the caller's query text variable, which queryStr points to
    queryParms,  \* per caller: the caller's variables argument (pointer and map)
    response,    \* per caller: the caller's QueryResponse (Data, Errors)
    dataStruct,  \* per caller: the structure the caller put behind response.Data
    pre,         \* per caller: response and dataStruct as they were when Query was called
    pc,          \* per caller: position in Query
    req,         \* per caller: the *http.Request Query built
    roundTrip,   \* per caller: what httpClient.Do returned (resp, err)
    ret,         \* per caller: how the Query call ended
    doCalls,     \* per caller: number of httpClient.Do invocations of this call
    bodyReads,   \* per caller: number of ioutil.ReadAll(resp.Body) of this call
    unmarshals,  \* per caller: number of json.Unmarshal of this call
    closes,      \* per caller: number of resp.Body.Close() of this call
    args,        \* the demo's command line and environment, as main finds them
    mainPc,      \* the demo's position in main
    exitCodes,   \* the codes exitDemo has been called with, in order
    stdout,      \* what the demo has printed, in order
    insecureSkipVerify, \* InsecureSkipVerify of the process-wide TLSClientConfig
    repoData,    \* what GetRepoData returned: result and error
    runErr       \* what runDemo returned

\* the state of the demo program
demoVars == <<args, mainPc, exitCodes, stdout, insecureSkipVerify, repoData, runErr>>

vars == <<demoVars, gc, createdURL, createdAuth, githubToken, input, output,
          queryStr, queryParms, response, dataStruct, pre, pc, req,
          roundTrip, ret, doCalls, bodyReads, unmarshals, closes>>

(***************************************************************************)
(* Bounds and input domains.                                               *)
(***************************************************************************)
\* longest errors array an endpoint answers with
MaxErrors == 2

\* longest text packQuery is called with directly
MaxLen == 4

\* most history edges an endpoint answers the demo's query with
MaxEdges == 2

Callers == {"c1", "c2"}

\* the callers that issue Query calls in the sequential specification
SeqCallers == {"c1"}

\* a URL that parses and has a scheme, one that parses but has no scheme
\* (httpClient.Do: unsupported protocol scheme), one url.Parse rejects
GoodURL == "https://api.github.com/graphql"
NoSchemeURL == "api.github.com/graphql"
UnparsableURL == ":graphql"
URLs == {GoodURL, NoSchemeURL, UnparsableURL}

Credentials == {"token f69a", "token this-aint-no-party"}

\* white space as unicode.IsSpace sees it (the ASCII part)
WhiteSpace == {" ", "\t", "\n", "\r"}

QueryTexts == { <<"q", " ", "{", "\n", "\t", "a", " ", " ", "}", "\n">>, <<"q">> }

Messages == {"e1", "e2"}

\* the characters of the texts packQuery is called with directly
Alphabet == {" ", "\t", "\n", "a", "b", "\""}

RECURSIVE SeqsUpTo(_, _)
SeqsUpTo(S, n) ==
    IF n = 0 THEN { <<>> }
    ELSE LET shorter == SeqsUpTo(S, n - 1)
         IN  shorter \cup { Append(s, x) : s \in {t \in shorter : Len(t) = n - 1}, x \in S }

(***************************************************************************)
(* The caller's variables argument: *map[string]interface{}.               *)
(* ptr = "nil" is a nil pointer; isnil is a nil map behind a real pointer. *)
(* A value is a Go string, or "chan": a value json.Marshal cannot encode.  *)
(***************************************************************************)
Unsupported == "chan"

Parms(isnil, m) == [ptr |-> "ok", isnil |-> isnil, m |-> m]

NilParmsPtr == [ptr |-> "nil", isnil |-> TRUE, m |-> <<>>]

ParmsDomain ==
    { NilParmsPtr,
      Parms(TRUE, <<>>),
      Parms(FALSE, <<>>),
      Parms(FALSE, [k \in {"owner", "name"} |-> IF k = "owner" THEN "mikebway" ELSE "gogql"]),
      Parms(FALSE, [k \in {"owner"} |-> Unsupported]) }

(***************************************************************************)
(* JSON documents an endpoint may answer with.                             *)
(***************************************************************************)
Str(s) == [t |-> "string", s |-> s]
Num(s) == [t |-> "number", s |-> s]
Arr(s) == [t |-> "array", s |-> s]

NoFields == <<>>

DataAbsent == [k |-> "absent", fields |-> NoFields]
DataNull == [k |-> "null", fields |-> NoFields]
DataScalar == [k |-> "scalar", fields |-> NoFields]
DataObject(f) == [k |-> "object", fields |-> f]

DataFull == DataObject([f \in {"name", "login"} |->
                IF f = "name" THEN Str("gogql") ELSE Str("mikebway")])
DataPartial == DataObject([f \in {"name"} |-> Str("other")])
DataMismatch == DataObject([f \in {"name", "login"} |->
                IF f = "name" THEN Str("other") ELSE Num("5")])

DataValues == {DataAbsent, DataNull, DataScalar, DataFull, DataPartial, DataMismatch}

ErrorsAbsent == [k |-> "absent", items |-> <<>>]
ErrorsNull == [k |-> "null", items |-> <<>>]
ErrorsScalar == [k |-> "scalar", items |-> <<>>]
ErrorsArray(s) == [k |-> "array", items |-> s]

ErrorsValues ==
    {ErrorsAbsent, ErrorsNull, ErrorsScalar}
        \cup { ErrorsArray(s) : s \in SeqsUpTo(Messages, MaxErrors) }

\* kind: "syntax" is not JSON at all (the empty body included), "null" the
\* JSON value null, "scalar" any other JSON value that is not an object
Body(kind, d, e) == [kind |-> kind, data |-> d, errors |-> e]

BodySyntax == Body("syntax", DataAbsent, ErrorsAbsent)
BodyNull == Body("null", DataAbsent, ErrorsAbsent)
BodyScalar == Body("scalar", DataAbsent, ErrorsAbsent)

ObjectBodies == { Body("object", d, e) : d \in DataValues, e \in ErrorsValues }

Bodies == {BodySyntax, BodyNull, BodyScalar} \cup ObjectBodies

\* the bodies tried with a status other than 200, and with a failing body read
FewBodies ==
    { BodySyntax,
      Body("object", DataFull, ErrorsAbsent),
      Body("object", DataNull, ErrorsArray(<<"e1">>)) }

(***************************************************************************)
(* HTTP answers.  Status is the status line's text as net/http gives it:   *)
(* the code followed by the reason phrase.                                 *)
(***************************************************************************)
Statuses == {200, 201, 204, 301, 401, 404, 500}

StatusText(code) ==
    CASE code = 200 -> "200 OK"
      [] code = 201 -> "201 Created"
      [] code = 204 -> "204 No Content"
      [] code = 301 -> "301 Moved Permanently"
      [] code = 401 -> "401 Unauthorized"
      [] code = 404 -> "404 Not Found"
      [] code = 500 -> "500 Internal Server Error"

\* readErr: how reading resp.Body goes. "" the whole body arrives; "truncated"
\* the read fails part way (the client timeout, a reset connection);
\* "late" the read fails after the last byte of the document has arrived
Response(code, body, readErr) ==
    [StatusCode |-> code, Status |-> StatusText(code), Body |-> body, readErr |-> readErr]

NoResponse == [StatusCode |-> 0, Status |-> "", Body |-> BodySyntax, readErr |-> ""]

Responses ==
    { Response(200, b, "") : b \in Bodies }
        \cup { Response(200, b, r) : b \in FewBodies \ {BodySyntax}, r \in {"truncated", "late"} }
        \cup { Response(code, b, "") : code \in Statuses \ {200}, b \in FewBodies }

\* what makes httpClient.Do fail on a URL the transport can dial
TransportCauses == {"dns", "connection refused", "tls", "timeout"}

\* the (resp, err) pair httpClient.Do returns
NoRoundTrip == [done |-> FALSE, resp |-> NoResponse, err |-> ""]
DoResponse(r) == [done |-> TRUE, resp |-> r, err |-> ""]
DoError(cause) == [done |-> TRUE, resp |-> NoResponse, err |-> cause]

(***************************************************************************)
(* packQuery: strings.Fields of the text, joined by single spaces.         *)
(***************************************************************************)
\* a faulty variant: only the blank separates fields
IsSpace_blankOnly(ch) == ch = " "

IsSpace(ch) == ch \in WhiteSpace

RECURSIVE FieldsFrom(_, _, _, _)
FieldsFrom(s, i, cur, acc) ==
    IF i > Len(s)
    THEN IF cur = <<>> THEN acc ELSE Append(acc, cur)
    ELSE IF IsSpace(s[i])
         THEN FieldsFrom(s, i + 1, <<>>, IF cur = <<>> THEN acc ELSE Append(acc, cur))
         ELSE FieldsFrom(s, i + 1, Append(cur, s[i]), acc)

\* strings.Fields: the maximal runs of non-space characters, in order
Fields(s) == FieldsFrom(s, 1, <<>>, <<>>)

RECURSIVE Join(_, _)
Join(elems, sep) ==
    IF elems = <<>> THEN <<>>
    ELSE IF Len(elems) = 1 THEN elems[1]
    ELSE elems[1] \o sep \o Join(Tail(elems), sep)

\* a faulty variant: white space inside a double-quoted literal is kept as it is
packQuery_keepsLiterals(str) ==
    LET Quoted(i) == Cardinality({j \in 1..(i - 1) : str[j] = "\""}) % 2 = 1
        Mask == [i \in 1..Len(str) |->
                    IF IsSpace(str[i]) /\ Quoted(i)
                    THEN (CASE str[i] = " " -> "_blank" [] str[i] = "\t" -> "_tab"
                            [] str[i] = "\n" -> "_newline" [] OTHER -> "_return")
                    ELSE str[i]]
        packed == Join(Fields(Mask), <<" ">>)
    IN  [i \in 1..Len(packed) |->
            CASE packed[i] = "_blank" -> " " [] packed[i] = "_tab" -> "\t"
              [] packed[i] = "_newline" -> "\n" [] packed[i] = "_return" -> "\r"
              [] OTHER -> packed[i]]

packQuery(str) == Join(Fields(str), <<" ">>)

(***************************************************************************)
(* json.Marshal of the query struct {Query, Variables}.                    *)
(***************************************************************************)
NoJSON == [query |-> <<>>, variables |-> [isnull |-> TRUE, m |-> <<>>]]

\* a nil map is encoded as null, any other map as an object of its pairs;
\* a value of a type encoding/json does not support fails the whole encoding
\* a faulty variant: the encoding error is dropped
jsonMarshal_dropsError(q) ==
    [err |-> "",
     bytes |-> [query |-> q.Query,
                variables |-> [isnull |-> q.Variables.isnil, m |-> q.Variables.m]]]

jsonMarshal(q) ==
    IF \E k \in DOMAIN q.Variables.m : q.Variables.m[k] = Unsupported
    THEN [err |-> "json: unsupported type: chan string", bytes |-> NoJSON]
    ELSE [err |-> "",
          bytes |-> [query |-> q.Query,
                     variables |-> [isnull |-> q.Variables.isnil, m |-> q.Variables.m]]]

(***************************************************************************)
(* http.NewRequest: fails (nil request) when url.Parse rejects the URL.    *)
(***************************************************************************)
NoHeader == [set |-> FALSE, value |-> ""]
Header(v) == [set |-> TRUE, value |-> v]

NoRequest ==
    [isnil |-> TRUE, method |-> "", url |-> "", contentType |-> NoHeader,
     authorization |-> NoHeader, body |-> NoJSON]

urlParses(u) == u # UnparsableURL

\* the transport can dial only a URL with a scheme it supports
urlSupported(u) == u = GoodURL

NewRequest(method, url, bytes) ==
    IF urlParses(url)
    THEN [isnil |-> FALSE, method |-> method, url |-> url, contentType |-> NoHeader,
          authorization |-> NoHeader, body |-> bytes]
    ELSE NoRequest

(***************************************************************************)
(* The caller's QueryResponse and json.Unmarshal into it.                  *)
(* Data is the interface field: "ptr" holds the pointer to the caller's    *)
(* structure (dataStruct), "nil" holds nothing, "generic" holds a value    *)
(* encoding/json made itself (v).  Errors is a slice: nil, or its items.   *)
(***************************************************************************)
NilSlice == [isnil |-> TRUE, items |-> <<>>]
Slice(items) == [isnil |-> FALSE, items |-> items]

DataPtr == [k |-> "ptr", v |-> DataAbsent]
DataNil == [k |-> "nil", v |-> DataAbsent]
DataGeneric(d) == [k |-> "generic", v |-> d]

\* QueryResponse{Data: new(SimpleRepoDataResponse)}
NewQueryResponse == [Data |-> DataPtr, Errors |-> NilSlice]
NewDataStruct == [name |-> "", login |-> ""]

NoSnapshot == [response |-> NewQueryResponse, dataStruct |-> NewDataStruct]

\* the JSON type a field of the caller's structure takes: the history edges
\* of GetRepoDataResponse are a slice, every other field is a string
FieldType(f) == IF f = "edges" THEN "array" ELSE "string"

\* a JSON value that does not fit the Go value it is decoded into
dataTypeError(d, Data) ==
    /\ Data.k = "ptr"
    /\ \/ d.k = "scalar"
       \/ d.k = "object" /\ \E f \in DOMAIN d.fields : d.fields[f].t # FieldType(f)

\* the "data" key: null empties the interface; a value goes into the structure
\* behind a pointer the interface holds, key by key, and otherwise replaces
\* what the interface holds
\* a faulty variant: null leaves what the interface holds
decodeData_nullKeeps(d, Data) ==
    IF d.k = "absent" THEN Data
    ELSE IF d.k = "null" THEN Data
    ELSE IF Data.k = "ptr" THEN Data
    ELSE DataGeneric(d)

decodeData(d, Data) ==
    IF d.k = "absent" THEN Data
    ELSE IF d.k = "null" THEN DataNil
    ELSE IF Data.k = "ptr" THEN Data
    ELSE DataGeneric(d)

decodeStruct(d, Data, st) ==
    IF d.k = "object" /\ Data.k = "ptr"
    THEN [f \in DOMAIN st |->
            IF f \in DOMAIN d.fields /\ d.fields[f].t = FieldType(f)
            THEN d.fields[f].s ELSE st[f]]
    ELSE st

\* a faulty variant: an array is appended to the items already there
decodeErrors_appends(e, Errors) ==
    CASE e.k = "null" -> NilSlice
      [] e.k = "array" -> Slice(Errors.items \o e.items)
      [] OTHER -> Errors

\* the "errors" key: null gives a nil slice, an array replaces the items
decodeErrors(e, Errors) ==
    CASE e.k = "null" -> NilSlice
      [] e.k = "array" -> Slice(e.items)
      [] OTHER -> Errors

\* json.Unmarshal(body, &response): a syntax check of the whole input first;
\* null only clears the local pointer; a non-object does not fit the struct;
\* an object is decoded key by key, going on after a value that does not fit
jsonUnmarshal(body, r, st) ==
    CASE body.kind = "syntax" ->
            [response |-> r, dataStruct |-> st, errType |-> "*json.SyntaxError",
             err |-> "unexpected end of JSON input"]
      [] body.kind = "null" ->
            [response |-> r, dataStruct |-> st, errType |-> "nil", err |-> ""]
      [] body.kind = "scalar" ->
            [response |-> r, dataStruct |-> st, errType |-> "*json.UnmarshalTypeError",
             err |-> "json: cannot unmarshal into Go value of type gqlclient.QueryResponse"]
      [] OTHER ->
            LET bad == dataTypeError(body.data, r.Data) \/ body.errors.k = "scalar"
            IN  [response |-> [Data |-> decodeData(body.data, r.Data),
                               Errors |-> decodeErrors(body.errors, r.Errors)],
                 dataStruct |-> decodeStruct(body.data, r.Data, st),
                 errType |-> IF bad THEN "*json.UnmarshalTypeError" ELSE "nil",
                 err |-> IF bad THEN "json: cannot unmarshal into Go struct field" ELSE ""]

\* ioutil.ReadAll(resp.Body) with its error dropped: what json.Unmarshal is given
readAll(resp) == IF resp.readErr = "truncated" THEN BodySyntax ELSE resp.Body

(***************************************************************************)
(* How a Query call ends: it returns nil or an error, or it panics.        *)
(***************************************************************************)
NoReturn == [state |-> "none", errType |-> "nil", err |-> ""]
Return(errType, err) == [state |-> "returned", errType |-> errType, err |-> err]
Panic == [state |-> "panic", errType |-> "runtime.Error",
          err |-> "invalid memory address or nil pointer dereference"]

\* the message of the error for a 401, and the prefix of the one for another status
Msg401 == "Recieved 401 UNAUTHORIZED response! Did you need to provide an authorization key?"
MsgNot200 == "Expected 200 response but received: "

(***************************************************************************)
(* CreateClient and GetTargetURL.                                          *)
(***************************************************************************)
CreateClient(targetURL, authorization) ==
    [targetURL |-> targetURL, authorization |-> authorization]

\* a faulty variant: the other field of the handle
GetTargetURL_authorization == gc.authorization

GetTargetURL == gc.targetURL

\* no direct call of packQuery has been made
NoOutput == [done |-> FALSE, str |-> <<>>]

\* the caller has a handle; createdURL and createdAuth keep the arguments
InitHandle ==
    \E u \in URLs, a \in {"nil", "&githubToken"} :
        /\ gc = CreateClient(u, a)
        /\ createdURL = u
        /\ IF a = "nil" THEN githubToken = "" ELSE githubToken \in Credentials
        /\ createdAuth = githubToken

\* the result and error GetRepoData and runDemo return; text is what was
\* written to the message, piece by piece, and cause the error passed on
NoError == [isnil |-> TRUE, text |-> <<>>, cause |-> NoReturn]
NoRepoData == [returned |-> FALSE, result |-> [isnil |-> TRUE], err |-> NoError]
NoArgs == [parse |-> "ok", github |-> "", skipverify |-> FALSE,
           tokenEnv |-> "GITHUB_TOKEN", token |-> ""]

\* the demo is not run
NoMain ==
    /\ args = NoArgs
    /\ mainPc = "off"
    /\ exitCodes = <<>>
    /\ stdout = <<>>
    /\ insecureSkipVerify = FALSE
    /\ repoData = NoRepoData
    /\ runErr = NoError

\* no Query call is under way
CallsAtRest ==
    /\ queryStr = [c \in Callers |-> <<>>]
    /\ queryParms = [c \in Callers |-> NilParmsPtr]
    /\ pre = [c \in Callers |-> NoSnapshot]
    /\ pc = [c \in Callers |-> "idle"]
    /\ req = [c \in Callers |-> NoRequest]
    /\ roundTrip = [c \in Callers |-> NoRoundTrip]
    /\ ret = [c \in Callers |-> NoReturn]
    /\ doCalls = [c \in Callers |-> 0]
    /\ bodyReads = [c \in Callers |-> 0]
    /\ unmarshals = [c \in Callers |-> 0]
    /\ closes = [c \in Callers |-> 0]

InitAtRest == CallsAtRest /\ NoMain

\* no Query call is under way, every caller holds a new QueryResponse
InitCalls ==
    /\ response = [c \in Callers |-> NewQueryResponse]
    /\ dataStruct = [c \in Callers |-> NewDataStruct]
    /\ InitAtRest

Init ==
    /\ InitHandle
    /\ InitCalls
    /\ input = <<>>
    /\ output = NoOutput

(***************************************************************************)
(* The caller makes a fresh QueryResponse between two calls.               *)
(***************************************************************************)
MakeResponse(c) ==
    /\ pc[c] = "idle"
    /\ <<response[c], dataStruct[c]>> # <<NewQueryResponse, NewDataStruct>>
    /\ response' = [response EXCEPT ![c] = NewQueryResponse]
    /\ dataStruct' = [dataStruct EXCEPT ![c] = NewDataStruct]
    /\ UNCHANGED <<demoVars, gc, createdURL, createdAuth, githubToken, input, output,
                   queryStr, queryParms, pre, pc, req,
                   roundTrip, ret, doCalls, bodyReads, unmarshals, closes>>

(***************************************************************************)
(* Query, from its call to the call of httpClient.Do (lines 101-118):      *)
(* the envelope is built and encoded, the request is made and its headers  *)
(* are set.  The call ends here when *queryParms is a nil dereference,     *)
(* when json.Marshal fails, and when http.NewRequest gave no request       *)
(* (its error is dropped, and req.Header is then a nil dereference).       *)
(***************************************************************************)
\* a faulty variant: the query text is sent as the caller wrote it
buildQuery_unpacked(str, parms) == [Query |-> str, Variables |-> parms]

buildQuery(str, parms) == [Query |-> packQuery(str), Variables |-> parms]

\* a faulty variant: the credential is sent behind a scheme word of the client's
setHeaders_prefixed(r, handle, token) ==
    [r EXCEPT !.contentType = Header("application/json"),
              !.authorization = IF handle.authorization # "nil"
                                THEN Header("Bearer " \o token) ELSE NoHeader]

setHeaders(r, handle, token) ==
    [r EXCEPT !.contentType = Header("application/json"),
              !.authorization = IF handle.authorization # "nil"
                                THEN Header(token) ELSE NoHeader]

\* a faulty variant: packQuery writes the packed text back through its pointer
afterPackQuery_inPlace(str) == packQuery(str)

\* what the caller's query text holds once packQuery has run: packQuery reads
\* through the pointer and builds a new string
afterPackQuery(str) == str

QueryCall(c, handle, token, str, parms) ==
        /\ queryStr' = [queryStr EXCEPT ![c] = afterPackQuery(str)]
        /\ queryParms' = [queryParms EXCEPT ![c] = parms]
        /\ pre' = [pre EXCEPT ![c] = [response |-> response[c], dataStruct |-> dataStruct[c]]]
        /\ roundTrip' = [roundTrip EXCEPT ![c] = NoRoundTrip]
        /\ bodyReads' = [bodyReads EXCEPT ![c] = 0]
        /\ unmarshals' = [unmarshals EXCEPT ![c] = 0]
        /\ closes' = [closes EXCEPT ![c] = 0]
        /\ IF parms.ptr = "nil"
           THEN /\ ret' = [ret EXCEPT ![c] = Panic]
                /\ req' = [req EXCEPT ![c] = NoRequest]
                /\ doCalls' = [doCalls EXCEPT ![c] = 0]
                /\ pc' = [pc EXCEPT ![c] = "returned"]
           ELSE LET queryBytes == jsonMarshal(buildQuery(str, parms))
                    request == NewRequest("POST", handle.targetURL, queryBytes.bytes)
                IN  IF queryBytes.err # ""
                    THEN /\ ret' = [ret EXCEPT ![c] =
                                      Return("*json.UnsupportedTypeError", queryBytes.err)]
                         /\ req' = [req EXCEPT ![c] = NoRequest]
                         /\ doCalls' = [doCalls EXCEPT ![c] = 0]
                         /\ pc' = [pc EXCEPT ![c] = "returned"]
                    ELSE IF request.isnil
                    THEN /\ ret' = [ret EXCEPT ![c] = Panic]
                         /\ req' = [req EXCEPT ![c] = NoRequest]
                         /\ doCalls' = [doCalls EXCEPT ![c] = 0]
                         /\ pc' = [pc EXCEPT ![c] = "returned"]
                    ELSE /\ ret' = [ret EXCEPT ![c] = NoReturn]
                         /\ req' = [req EXCEPT ![c] = setHeaders(request, handle, token)]
                         /\ doCalls' = [doCalls EXCEPT ![c] = 1]
                         /\ pc' = [pc EXCEPT ![c] = "inDo"]
        /\ UNCHANGED <<demoVars, gc, createdURL, createdAuth, githubToken, input, output,
                       response, dataStruct>>

\* the call on the caller's handle; the header reads what its authorization points to
Query(c) ==
    /\ pc[c] = "idle"
    /\ \E str \in QueryTexts, parms \in ParmsDomain :
          QueryCall(c, gc, githubToken, str, parms)

(***************************************************************************)
(* The environment: httpClient.Do(req) comes back with a response or with  *)
(* an error.  A URL the transport cannot dial always gives an error.       *)
(***************************************************************************)
DoOutcomes(r) ==
    IF urlSupported(r.url)
    THEN { DoResponse(x) : x \in Responses } \cup { DoError(x) : x \in TransportCauses }
    ELSE { DoError("unsupported protocol scheme") }

httpClientDoFrom(c, outcomes) ==
    /\ pc[c] = "inDo"
    /\ \E o \in outcomes : roundTrip' = [roundTrip EXCEPT ![c] = o]
    /\ pc' = [pc EXCEPT ![c] = "afterDo"]
    /\ UNCHANGED <<demoVars, gc, createdURL, createdAuth, githubToken, input, output,
                   queryStr, queryParms, response, dataStruct,
                   pre, req, ret, doCalls, bodyReads, unmarshals, closes>>

httpClientDo(c) == httpClientDoFrom(c, DoOutcomes(req[c]))

\* a few outcomes of each kind, for the specifications with more than one call
\* or caller in view
FewOutcomes(r) ==
    IF urlSupported(r.url)
    THEN { DoError("timeout"), DoResponse(Response(401, BodySyntax, "")) }
            \cup { DoResponse(Response(200, b, "")) : b \in FewBodies \cup {BodyNull} }
            \cup { DoResponse(Response(200, Body("object", DataFull, ErrorsAbsent), "truncated")) }
    ELSE { DoError("unsupported protocol scheme") }

(***************************************************************************)
(* Query, from the return of httpClient.Do to its own (lines 119-137).     *)
(***************************************************************************)
\* a faulty variant: a new error that does not carry the one of httpClient.Do
transportError_newError(err) == Return("*errors.errorString", "the request failed")

\* the error of httpClient.Do is returned as it is
transportError(err) == Return("*url.Error", err)

\* a faulty variant: every 2xx status passes
notOK_only2xx(resp) == resp.StatusCode \notin 200..299

notOK(resp) == resp.StatusCode # 200

\* a faulty variant: 401 is reported like any other status
statusError_no401(resp) == Return("*errors.errorString", MsgNot200 \o resp.Status)

statusError(resp) ==
    IF resp.StatusCode = 401
    THEN Return("*errors.errorString", Msg401)
    ELSE Return("*errors.errorString", MsgNot200 \o resp.Status)

\* a faulty variant: the body is closed on the path that reads it only
bodyCloses_only200(resp) == IF resp.StatusCode = 200 THEN 1 ELSE 0

\* defer resp.Body.Close(), registered once httpClient.Do gave a response:
\* the number of times the body is closed when Query returns
bodyCloses(resp) == 1

\* a faulty variant: the body is unmarshalled before the status is looked at
queryOutcome_decodesFirst(rt, r, st) ==
    LET out == jsonUnmarshal(readAll(rt.resp), r, st)
    IN  IF rt.err # ""
        THEN [ret |-> transportError(rt.err), response |-> r, dataStruct |-> st,
              closed |-> 0, read |-> 0]
        ELSE IF notOK(rt.resp)
        THEN [ret |-> statusError(rt.resp), response |-> out.response,
              dataStruct |-> out.dataStruct, closed |-> 1, read |-> 1]
        ELSE [ret |-> Return(out.errType, out.err), response |-> out.response,
              dataStruct |-> out.dataStruct, closed |-> 1, read |-> 1]

\* lines 119-137 as a function of what httpClient.Do returned and of the
\* caller's QueryResponse: the return value, the QueryResponse afterwards,
\* and whether the body was closed, read and unmarshalled
queryOutcome(rt, r, st) ==
    LET out == jsonUnmarshal(readAll(rt.resp), r, st)
    IN  IF rt.err # ""
        THEN [ret |-> transportError(rt.err), response |-> r, dataStruct |-> st,
              closed |-> 0, read |-> 0]
        ELSE IF notOK(rt.resp)
        THEN [ret |-> statusError(rt.resp), response |-> r, dataStruct |-> st,
              closed |-> bodyCloses(rt.resp), read |-> 0]
        ELSE [ret |-> Return(out.errType, out.err), response |-> out.response,
              dataStruct |-> out.dataStruct, closed |-> bodyCloses(rt.resp), read |-> 1]

\* a faulty variant: every call unmarshals into one package level QueryResponse
targetOf_shared(c) == "c1"

\* the QueryResponse a call writes: the one its caller passed as response
targetOf(c) == c

\* a faulty variant: the error of a failed round trip quotes the request's
\* Authorization header
QueryResume_leaks(c) ==
    /\ pc[c] = "afterDo"
    /\ LET t == targetOf(c)
           o == queryOutcome(roundTrip[c], response[t], dataStruct[t])
       IN  /\ ret' = [ret EXCEPT ![c] =
                        IF roundTrip[c].err # ""
                        THEN Return("*url.Error", o.ret.err \o req[c].authorization.value)
                        ELSE o.ret]
           /\ response' = [response EXCEPT ![t] = o.response]
           /\ dataStruct' = [dataStruct EXCEPT ![t] = o.dataStruct]
           /\ closes' = [closes EXCEPT ![c] = @ + o.closed]
           /\ bodyReads' = [bodyReads EXCEPT ![c] = @ + o.read]
           /\ unmarshals' = [unmarshals EXCEPT ![c] = @ + o.read]
    /\ pc' = [pc EXCEPT ![c] = "returned"]
    /\ UNCHANGED <<demoVars, gc, createdURL, createdAuth, githubToken, input, output,
                   queryStr, queryParms, pre, req, roundTrip, doCalls>>

QueryResume(c) ==
    /\ pc[c] = "afterDo"
    /\ LET t == targetOf(c)
           o == queryOutcome(roundTrip[c], response[t], dataStruct[t])
       IN  /\ ret' = [ret EXCEPT ![c] = o.ret]
           /\ response' = [response EXCEPT ![t] = o.response]
           /\ dataStruct' = [dataStruct EXCEPT ![t] = o.dataStruct]
           /\ closes' = [closes EXCEPT ![c] = @ + o.closed]
           /\ bodyReads' = [bodyReads EXCEPT ![c] = @ + o.read]
           /\ unmarshals' = [unmarshals EXCEPT ![c] = @ + o.read]
    /\ pc' = [pc EXCEPT ![c] = "returned"]
    /\ UNCHANGED <<demoVars, gc, createdURL, createdAuth, githubToken, input, output,
                   queryStr, queryParms, pre, req, roundTrip, doCalls>>

(***************************************************************************)
(* The caller takes the outcome; the call's request and response are gone. *)
(***************************************************************************)
TakeResult(c) ==
    /\ pc[c] = "returned"
    /\ pc' = [pc EXCEPT ![c] = "idle"]
    /\ req' = [req EXCEPT ![c] = NoRequest]
    /\ roundTrip' = [roundTrip EXCEPT ![c] = NoRoundTrip]
    /\ ret' = [ret EXCEPT ![c] = NoReturn]
    /\ pre' = [pre EXCEPT ![c] = NoSnapshot]
    /\ queryStr' = [queryStr EXCEPT ![c] = <<>>]
    /\ queryParms' = [queryParms EXCEPT ![c] = NilParmsPtr]
    /\ doCalls' = [doCalls EXCEPT ![c] = 0]
    /\ bodyReads' = [bodyReads EXCEPT ![c] = 0]
    /\ unmarshals' = [unmarshals EXCEPT ![c] = 0]
    /\ closes' = [closes EXCEPT ![c] = 0]
    /\ UNCHANGED <<demoVars, gc, createdURL, createdAuth, githubToken, input, output,
                   response, dataStruct>>

Next ==
    \E c \in SeqCallers :
        \/ MakeResponse(c)
        \/ Query(c)
        \/ httpClientDo(c)
        \/ QueryResume(c)
        \/ TakeResult(c)

Spec == Init /\ [][Next]_vars

(***************************************************************************)
(* One call and its replay.  Caller c1 makes a Query call, on a new        *)
(* QueryResponse or on one an earlier call has filled; when it has         *)
(* returned, caller c2 makes the call again, with the same query text and  *)
(* variables, and the endpoint gives it the same answer.                   *)
(***************************************************************************)
\* a QueryResponse as the caller may hold it before a call: new, filled by
\* an answer with data and an error, or with the Data an answer of null left
StartTargets ==
    { [response |-> NewQueryResponse, dataStruct |-> NewDataStruct],
      [response |-> [Data |-> DataPtr, Errors |-> Slice(<<"e1">>)],
       dataStruct |-> [name |-> "gogql", login |-> "mikebway"]],
      [response |-> [Data |-> DataNil, Errors |-> NilSlice],
       dataStruct |-> NewDataStruct] }

FirstCall ==
    \/ Query("c1")
    \/ httpClientDo("c1")
    \/ QueryResume("c1")

\* the endpoint answers the replay as it answered the first call
ReplayDo ==
    /\ pc["c1"] = "returned"
    /\ httpClientDoFrom("c2", {roundTrip["c1"]})

\* a second handle for the same URL, made with another credential
TwinAuthorization ==
    IF githubToken = "token f69a" THEN "token this-aint-no-party" ELSE "token f69a"

TwinClient == CreateClient(gc.targetURL, "&twinToken")

\* c2 holds a QueryResponse equal to the one c1 starts with
InitTwin ==
    /\ InitHandle
    /\ InitAtRest
    /\ \E t \in StartTargets :
          /\ response = [c \in Callers |-> t.response]
          /\ dataStruct = [c \in Callers |-> t.dataStruct]
    /\ input = <<>>
    /\ output = NoOutput

\* the same call on the twin handle
TwinQuery ==
    /\ pc["c1"] = "returned"
    /\ pc["c2"] = "idle"
    /\ QueryCall("c2", TwinClient, TwinAuthorization, queryStr["c1"], queryParms["c1"])

NextTwin ==
    \/ FirstCall
    \/ TwinQuery
    \/ ReplayDo
    \/ QueryResume("c2")

SpecTwin == InitTwin /\ [][NextTwin]_vars

\* c1 starts with any of the QueryResponses, c2 holds a new one
InitTwice ==
    /\ InitHandle
    /\ InitAtRest
    /\ \E t \in StartTargets :
          /\ response = [c \in Callers |-> IF c = "c1" THEN t.response ELSE NewQueryResponse]
          /\ dataStruct = [c \in Callers |-> IF c = "c1" THEN t.dataStruct ELSE NewDataStruct]
    /\ input = <<>>
    /\ output = NoOutput

\* the second call is given the QueryResponse the first call has filled
ReuseResponse ==
    /\ pc["c1"] = "returned"
    /\ pc["c2"] = "idle"
    /\ <<response["c2"], dataStruct["c2"]>> # <<response["c1"], dataStruct["c1"]>>
    /\ response' = [response EXCEPT !["c2"] = response["c1"]]
    /\ dataStruct' = [dataStruct EXCEPT !["c2"] = dataStruct["c1"]]
    /\ UNCHANGED <<demoVars, gc, createdURL, createdAuth, githubToken, input, output,
                   queryStr, queryParms, pre, pc, req, roundTrip, ret, doCalls,
                   bodyReads, unmarshals, closes>>

\* the same call again on the same handle
QueryAgain ==
    /\ pc["c1"] = "returned"
    /\ pc["c2"] = "idle"
    /\ QueryCall("c2", gc, githubToken, queryStr["c1"], queryParms["c1"])

NextTwice ==
    \/ FirstCall
    \/ ReuseResponse
    \/ QueryAgain
    \/ ReplayDo
    \/ QueryResume("c2")

SpecTwice == InitTwice /\ [][NextTwice]_vars

(***************************************************************************)
(* Concurrent callers.  Two goroutines share the handle and each makes one *)
(* Query call with its own QueryResponse; their steps interleave freely.   *)
(***************************************************************************)
InitConc ==
    /\ InitHandle
    /\ InitAtRest
    /\ \E t \in [Callers -> StartTargets] :
          /\ response = [c \in Callers |-> t[c].response]
          /\ dataStruct = [c \in Callers |-> t[c].dataStruct]
    /\ input = <<>>
    /\ output = NoOutput

NextConc ==
    \E c \in Callers :
        \/ Query(c)
        \/ httpClientDoFrom(c, FewOutcomes(req[c]))
        \/ QueryResume(c)

SpecConc == InitConc /\ [][NextConc]_vars

(***************************************************************************)
(* packQuery called on its own, as TestPackQuery does, with every text of  *)
(* at most MaxLen characters of Alphabet.                                  *)
(***************************************************************************)
PackInputs == SeqsUpTo(Alphabet, MaxLen)

InitPack ==
    /\ gc = CreateClient(GoodURL, "nil")
    /\ createdURL = GoodURL
    /\ createdAuth = ""
    /\ githubToken = ""
    /\ InitCalls
    /\ input \in PackInputs
    /\ output = NoOutput

TestPackQuery ==
    /\ ~output.done
    /\ output' = [done |-> TRUE, str |-> packQuery(input)]
    /\ UNCHANGED <<demoVars, gc, createdURL, createdAuth, githubToken, input, queryStr, queryParms,
                   response, dataStruct, pre, pc, req, roundTrip, ret, doCalls,
                   bodyReads, unmarshals, closes>>

SpecPack == InitPack /\ [][TestPackQuery]_vars

(***************************************************************************)
(* The caller and its credential variable.  The handle keeps the address   *)
(* of the caller's string (authorization is a *string), so between two     *)
(* Query calls the caller can assign the variable.                         *)
(***************************************************************************)
\* the caller assigns the variable whose address it gave to CreateClient
SetGithubToken ==
    /\ gc.authorization # "nil"
    /\ \A c \in SeqCallers : pc[c] = "idle"
    /\ \E t \in Credentials \ {githubToken} : githubToken' = t
    /\ UNCHANGED <<demoVars, gc, createdURL, createdAuth, input, output, queryStr, queryParms,
                   response, dataStruct, pre, pc, req, roundTrip, ret, doCalls,
                   bodyReads, unmarshals, closes>>

NextCaller ==
    \/ SetGithubToken
    \/ \E c \in SeqCallers :
          \/ MakeResponse(c)
          \/ Query(c)
          \/ httpClientDoFrom(c, FewOutcomes(req[c]))
          \/ QueryResume(c)
          \/ TakeResult(c)

SpecCaller == Init /\ [][NextCaller]_vars

\* httpClient.Do comes back (at the latest when httpClient.Timeout, 10 s, has
\* run out), and Query's own code after it has no loop and no wait
SpecLive ==
    /\ Init
    /\ [][NextCaller]_vars
    /\ \A c \in SeqCallers :
          /\ WF_vars(httpClientDoFrom(c, FewOutcomes(req[c])))
          /\ WF_vars(QueryResume(c))

(***************************************************************************)
(* The demo program: main parses the command line, runDemo reads the token *)
(* from the environment and sets the TLS configuration, GetRepoData makes  *)
(* a client, calls Query once as caller c1 and turns the QueryResponse     *)
(* into its result; main prints and calls exitDemo.                        *)
(***************************************************************************)
\* the demo's query text (shortened) and the variables GetRepoData passes
getRepoDataQuery == <<"q", " ", "{", "\n", "\t", "a", " ", " ", "}", "\n">>

RepoParms ==
    Parms(FALSE, [k \in {"owner", "name"} |-> IF k = "owner" THEN "mikebway" ELSE "gogql"])

\* new(GetRepoDataResponse), with the fields the result is made from
NewRepoDataResponse == [name |-> "", login |-> "", edges |-> <<>>]

\* the zero value of a handle, before CreateClient
NoClient == [targetURL |-> "", authorization |-> "nil"]

\* parse: how flag.Parse takes the command line ("bad": a flag it does not
\* know, "help": -h); token: the value of the environment variable tokenEnv
ArgsDomain ==
    [parse : {"ok", "bad", "help"}, github : URLs, skipverify : BOOLEAN,
     tokenEnv : {"GITHUB_TOKEN", "CORP_TOKEN"}, token : {"", "f69a"}]

Headlines == {"h1", "h2"}

DataRepo(s) ==
    DataObject([f \in {"name", "login", "edges"} |->
        IF f = "edges" THEN Arr(s)
        ELSE IF f = "name" THEN Str("gogql") ELSE Str("mikebway")])

\* the answers of the endpoint to the demo: those of DoOutcomes, and
\* repositories with history edges
DemoOutcomes(r) ==
    DoOutcomes(r) \cup
        IF urlSupported(r.url)
        THEN { DoResponse(Response(200, Body("object", DataRepo(s), e), "")) :
                  s \in SeqsUpTo(Headlines, MaxEdges),
                  e \in {ErrorsAbsent, ErrorsNull, ErrorsArray(<<>>), ErrorsArray(<<"e1">>)} }
        ELSE {}

InitDemo ==
    /\ gc = NoClient
    /\ createdURL = ""
    /\ createdAuth = ""
    /\ githubToken = ""
    /\ input = <<>>
    /\ output = NoOutput
    /\ response = [c \in Callers |-> NewQueryResponse]
    /\ dataStruct = [c \in Callers |-> NewDataStruct]
    /\ CallsAtRest
    /\ args \in ArgsDomain
    /\ mainPc = "start"
    /\ exitCodes = <<>>
    /\ stdout = <<>>
    /\ insecureSkipVerify = FALSE
    /\ repoData = NoRepoData
    /\ runErr = NoError

\* an error made by errors.New from the pieces of its message
NewError(text) == [isnil |-> FALSE, text |-> text, cause |-> NoReturn]

\* a faulty variant: the TLS configuration is set before the token is looked at
runDemoEntry_tlsFirst(a, tls) ==
    IF a.token = ""
    THEN [err |-> NewError(<<"the ", a.tokenEnv, " environment variable is not set">>),
          tls |-> (tls \/ a.skipverify)]
    ELSE [err |-> NoError, tls |-> (tls \/ a.skipverify)]

\* runDemo up to its call of GetRepoData (demo.go lines 84-103): the error it
\* returns at once, if any, and InsecureSkipVerify afterwards
runDemoEntry(a, tls) ==
    IF a.token = ""
    THEN [err |-> NewError(<<"the ", a.tokenEnv, " environment variable is not set">>),
          tls |-> tls]
    ELSE [err |-> NoError, tls |-> (tls \/ a.skipverify)]

\* main's ending (demo.go lines 70-77): what it prints and the code for exitDemo
mainExit(err) ==
    IF ~err.isnil
    THEN [printed |-> <<"GraphQL Client Demo FAILED", "usage">>, code |-> 2]
    ELSE [printed |-> <<"GraphQL Client Demo finished OK">>, code |-> 0]

\* main from its start to GetRepoData's call of Query: flag.Parse ends the
\* process itself on a command line it rejects; runDemo returns at once
\* without a token; otherwise GetRepoData makes its client and QueryResponse
mainStart ==
    /\ mainPc = "start"
    /\ LET entry == runDemoEntry(args, insecureSkipVerify)
           ending == mainExit(entry.err)
       IN  IF args.parse # "ok"
           THEN /\ mainPc' = "exitedInParse"
                /\ stdout' = <<"usage">>
                /\ UNCHANGED <<exitCodes, insecureSkipVerify, runErr, gc, createdURL,
                               createdAuth, githubToken, response, dataStruct>>
           ELSE IF ~entry.err.isnil
           THEN /\ mainPc' = "over"
                /\ runErr' = entry.err
                /\ insecureSkipVerify' = entry.tls
                /\ stdout' = ending.printed
                /\ exitCodes' = Append(exitCodes, ending.code)
                /\ UNCHANGED <<gc, createdURL, createdAuth, githubToken, response,
                               dataStruct>>
           ELSE /\ mainPc' = "inGetRepoData"
                /\ insecureSkipVerify' = entry.tls
                /\ githubToken' = "token " \o args.token
                /\ createdAuth' = "token " \o args.token
                /\ createdURL' = args.github
                /\ gc' = CreateClient(args.github, "&githubToken")
                /\ response' = [response EXCEPT !["c1"] = NewQueryResponse]
                /\ dataStruct' = [dataStruct EXCEPT !["c1"] = NewRepoDataResponse]
                /\ UNCHANGED <<exitCodes, stdout, runErr>>
    /\ UNCHANGED <<args, repoData, input, output, queryStr, queryParms, pre, pc, req,
                   roundTrip, ret, doCalls, bodyReads, unmarshals, closes>>

\* GetRepoData's call of Query, up to httpClient.Do
GetRepoDataQuery ==
    /\ mainPc = "inGetRepoData"
    /\ pc["c1"] = "idle"
    /\ QueryCall("c1", gc, githubToken, getRepoDataQuery, RepoParms)

\* the message GetRepoData builds from the Errors, piece by piece
errorsFound(items) ==
    <<"Errors found in GraphQL Response:\n\n">> \o
        [i \in 1..(2 * Len(items)) |-> IF i % 2 = 1 THEN items[(i + 1) \div 2] ELSE "\n"]

\* GetRepoData after Query has returned (lines 191-238)
getRepoDataReturn(r, resp, st) ==
    IF r.errType # "nil"
    THEN [returned |-> TRUE, result |-> [isnil |-> TRUE],
          err |-> [isnil |-> FALSE, text |-> <<r.err>>, cause |-> r]]
    ELSE IF ~resp.Errors.isnil
    THEN [returned |-> TRUE, result |-> [isnil |-> TRUE],
          err |-> NewError(errorsFound(resp.Errors.items))]
    ELSE IF resp.Data.k # "ptr"
    THEN [returned |-> TRUE, result |-> [isnil |-> TRUE],
          err |-> NewError(<<"Response did not contain the expected structure">>)]
    ELSE [returned |-> TRUE,
          result |-> [isnil |-> FALSE, Name |-> st.name, Owner |-> st.login,
                      RecentCommits |-> [i \in 1..Len(st.edges) |->
                                            [Headline |-> st.edges[i]]]],
          err |-> NoError]

\* main from the return of Query to its end: GetRepoData and runDemo return,
\* main prints and calls exitDemo; a panic of Query goes up through all three
mainFinish ==
    /\ mainPc = "inGetRepoData"
    /\ pc["c1"] = "returned"
    /\ IF ret["c1"].state = "panic"
       THEN /\ mainPc' = "panicked"
            /\ UNCHANGED <<repoData, runErr, stdout, exitCodes>>
       ELSE LET got == getRepoDataReturn(ret["c1"], response["c1"], dataStruct["c1"])
                ending == mainExit(got.err)
            IN  /\ mainPc' = "over"
                /\ repoData' = got
                /\ runErr' = got.err
                /\ stdout' = IF got.err.isnil THEN <<"repository">> \o ending.printed
                                               ELSE ending.printed
                /\ exitCodes' = Append(exitCodes, ending.code)
    /\ UNCHANGED <<args, insecureSkipVerify, gc, createdURL, createdAuth, githubToken,
                   input, output, queryStr, queryParms, response, dataStruct, pre, pc,
                   req, roundTrip, ret, doCalls, bodyReads, unmarshals, closes>>

NextDemo ==
    \/ mainStart
    \/ GetRepoDataQuery
    \/ httpClientDoFrom("c1", DemoOutcomes(req["c1"]))
    \/ QueryResume("c1")
    \/ mainFinish

SpecDemo == InitDemo /\ [][NextDemo]_vars

(***************************************************************************)
(* The error kinds of the specification, read off the Go error returned.   *)
(***************************************************************************)
ErrorKind(r) ==
    CASE r.state = "none" -> "running"
      [] r.state = "panic" -> "panic"
      [] r.state = "returned" /\ r.errType = "nil" -> "success"
      [] r.state = "returned" /\ r.errType = "*json.UnsupportedTypeError" -> "SerializationError"
      [] r.state = "returned" /\ r.errType = "*url.Error" -> "TransportError"
      [] r.state = "returned" /\ r.errType = "*errors.errorString" /\ r.err = Msg401 ->
            "AuthorizationError"
      [] r.state = "returned" /\ r.errType = "*errors.errorString" /\ r.err # Msg401 ->
            "StatusError"
      [] r.state = "returned"
            /\ r.errType \in {"*json.SyntaxError", "*json.UnmarshalTypeError"} -> "DecodeError"

\* the Query call of caller c has ended
Ended(c) == pc[c] = "returned"

\* httpClient.Do gave the call of caller c a response
Answered(c) == roundTrip[c].done /\ roundTrip[c].err = ""

\* the caller's QueryResponse is as it was when Query was called
TargetUntouched(c) ==
    /\ response[c] = pre[c].response
    /\ dataStruct[c] = pre[c].dataStruct

\* the request envelope of the call of caller c can be encoded
Serializable(c) ==
    /\ queryParms[c].ptr # "nil"
    /\ \A k \in DOMAIN queryParms[c].m : queryParms[c].m[k] # Unsupported

\* the endpoint answered 200 and the whole body reached the client
Answered200(c) ==
    /\ Answered(c)
    /\ roundTrip[c].resp.StatusCode = 200
    /\ roundTrip[c].resp.readErr # "truncated"

\* the body of the answer is an envelope whose data is an object of strings
WellFormedData(c) ==
    /\ roundTrip[c].resp.Body.kind = "object"
    /\ roundTrip[c].resp.Body.data.k = "object"
    /\ \A f \in DOMAIN roundTrip[c].resp.Body.data.fields :
          roundTrip[c].resp.Body.data.fields[f].t = "string"

(***************************************************************************)
(* C1: a 200 answer with a well-formed envelope whose errors field is      *)
(* absent or empty makes Query return success, with each field of data in  *)
(* the structure the caller placed in Data and with an empty errors        *)
(* sequence in the caller's QueryResponse.  Fails: see C1_HappyPath's      *)
(* trace, where the QueryResponse still holds the errors of an earlier     *)
(* call.                                                                   *)
(***************************************************************************)
C1_HappyPath ==
    \A c \in Callers :
        ( /\ Ended(c)
          /\ Answered200(c)
          /\ WellFormedData(c)
          /\ roundTrip[c].resp.Body.errors \in {ErrorsAbsent, ErrorsArray(<<>>)}
          /\ pre[c].response.Data.k = "ptr" )
        => /\ ErrorKind(ret[c]) = "success"
           /\ response[c].Data.k = "ptr"
           /\ \A f \in DOMAIN roundTrip[c].resp.Body.data.fields :
                 dataStruct[c][f] = roundTrip[c].resp.Body.data.fields[f].s
           /\ response[c].Errors.items = <<>>

(***************************************************************************)
(* C2: a 401 answer makes Query fail with an AuthorizationError, which is  *)
(* not a StatusError, whatever the body; the body is neither read nor      *)
(* decoded and the caller's QueryResponse is not written.                  *)
(***************************************************************************)
C2_Unauthorized ==
    \A c \in Callers :
        (Ended(c) /\ Answered(c) /\ roundTrip[c].resp.StatusCode = 401)
        => /\ ErrorKind(ret[c]) = "AuthorizationError"
           /\ ErrorKind(ret[c]) # "StatusError"
           /\ bodyReads[c] = 0
           /\ unmarshals[c] = 0
           /\ TargetUntouched(c)

C2_Witness ==
    \E c \in Callers :
        /\ Ended(c) /\ Answered(c)
        /\ roundTrip[c].resp.StatusCode = 401
        /\ roundTrip[c].resp.Body = Body("object", DataFull, ErrorsAbsent)
        /\ ErrorKind(ret[c]) = "AuthorizationError"

(***************************************************************************)
(* C3: an answer with any status other than 200 and 401 (201 and 204       *)
(* included) makes Query fail with a StatusError whose text ends with the  *)
(* status line, the number and the reason phrase; the body is neither read *)
(* nor decoded.                                                            *)
(***************************************************************************)
C3_OtherStatus ==
    \A c \in Callers :
        (Ended(c) /\ Answered(c) /\ roundTrip[c].resp.StatusCode \notin {200, 401})
        => /\ ErrorKind(ret[c]) = "StatusError"
           /\ ret[c].err = MsgNot200 \o StatusText(roundTrip[c].resp.StatusCode)
           /\ roundTrip[c].resp.StatusCode = 404
                 => ret[c].err = "Expected 200 response but received: 404 Not Found"
           /\ bodyReads[c] = 0
           /\ unmarshals[c] = 0
           /\ TargetUntouched(c)

C3_Witness ==
    \E c \in Callers :
        /\ Ended(c) /\ Answered(c)
        /\ roundTrip[c].resp.StatusCode = 201
        /\ roundTrip[c].resp.Body = Body("object", DataFull, ErrorsAbsent)
        /\ ret[c].err = "Expected 200 response but received: 201 Created"

C5_NoVariables ==
    \A c \in Callers :
        (pc[c] # "idle" /\ (queryParms[c].ptr = "nil" \/ queryParms[c].isnil))
        => /\ ret[c].state # "panic"
           /\ urlParses(gc.targetURL)
                 => /\ doCalls[c] = 1
                    /\ req[c].body.variables = [isnull |-> FALSE, m |-> <<>>]

(***************************************************************************)
(* C6: a Query call on a handle created with a malformed URL, with a       *)
(* request envelope that can be encoded, returns a TransportError.  Fails: *)
(* the error of http.NewRequest is dropped and the nil request is used.    *)
(***************************************************************************)
C6_MalformedURL ==
    \A c \in Callers :
        (Ended(c) /\ Serializable(c) /\ createdURL \in {NoSchemeURL, UnparsableURL})
        => ErrorKind(ret[c]) = "TransportError"

(***************************************************************************)
(* C7: when a variable value cannot be encoded as JSON, Query fails with a *)
(* SerializationError and httpClient.Do has not been called: a call is in  *)
(* httpClient.Do, or past it, only if its envelope could be encoded.       *)
(***************************************************************************)
C7_SerializationError ==
    \A c \in Callers :
        /\ ( /\ Ended(c)
             /\ queryParms[c].ptr # "nil"
             /\ \E k \in DOMAIN queryParms[c].m : queryParms[c].m[k] = Unsupported )
           => /\ ErrorKind(ret[c]) = "SerializationError"
              /\ doCalls[c] = 0
              /\ req[c].isnil
              /\ ~roundTrip[c].done
        /\ (pc[c] \in {"inDo", "afterDo"} \/ doCalls[c] > 0) => Serializable(c)

C7_Witness ==
    \E c \in Callers :
        /\ Ended(c)
        /\ queryParms[c] = Parms(FALSE, [k \in {"owner"} |-> Unsupported])
        /\ urlSupported(gc.targetURL)
        /\ ErrorKind(ret[c]) = "SerializationError"
        /\ doCalls[c] = 0

(***************************************************************************)
(* C8: when httpClient.Do fails, Query returns a TransportError that is    *)
(* the error httpClient.Do gave; no status is looked at, no body is read,  *)
(* decoded or closed, and the caller's QueryResponse is not written.       *)
(***************************************************************************)
C8_TransportError ==
    \A c \in Callers :
        (Ended(c) /\ roundTrip[c].done /\ roundTrip[c].err # "")
        => /\ ErrorKind(ret[c]) = "TransportError"
           /\ ret[c].err = roundTrip[c].err
           /\ bodyReads[c] = 0
           /\ unmarshals[c] = 0
           /\ closes[c] = 0
           /\ TargetUntouched(c)

C8_Witness ==
    \E c \in Callers :
        /\ Ended(c)
        /\ roundTrip[c] = DoError("timeout")
        /\ ret[c] = Return("*url.Error", "timeout")

(***************************************************************************)
(* C9: a Query call calls httpClient.Do exactly once when its envelope can *)
(* be encoded and never otherwise.  Fails: with a URL that does not parse  *)
(* the call crashes before httpClient.Do (see C6).                         *)
(***************************************************************************)
C9_OncePerCall ==
    \A c \in Callers :
        Ended(c) => doCalls[c] = IF Serializable(c) THEN 1 ELSE 0

(***************************************************************************)
(* C10: GetTargetURL returns the URL the handle was created with, in every *)
(* state: before, during and after Query calls of every outcome.           *)
(***************************************************************************)
C10_TargetURL == GetTargetURL = createdURL

C10_Witness ==
    \E c \in Callers :
        /\ Ended(c)
        /\ ~pre[c].response.Errors.isnil
        /\ ErrorKind(ret[c]) = "DecodeError"
        /\ GetTargetURL = createdURL

(***************************************************************************)
(* C11: the handle's configuration is fixed at construction: the stored    *)
(* target URL is the one CreateClient was given, and every request carries *)
(* as Authorization the credential CreateClient was given, whatever the    *)
(* caller did to its own string variable since.  Fails: the handle keeps   *)
(* the variable's address and reads it at each call.                       *)
(***************************************************************************)
C11_ConfigurationFixed ==
    /\ gc.targetURL = createdURL
    /\ \A c \in Callers :
          ~req[c].isnil =>
              req[c].authorization =
                  IF gc.authorization = "nil" THEN NoHeader ELSE Header(createdAuth)

(***************************************************************************)
(* C13: every request Query makes is a POST to the handle's target URL     *)
(* with Content-Type application/json; it carries an Authorization header, *)
(* equal character for character to the credential the handle holds (the   *)
(* string its authorization points to when the request is made), exactly   *)
(* when CreateClient was given a credential, and none otherwise.           *)
(***************************************************************************)
C13_RequestShape ==
    \A c \in Callers :
        /\ doCalls[c] = 1 => ~req[c].isnil
        /\ ~req[c].isnil =>
              /\ req[c].method = "POST"
              /\ req[c].url = gc.targetURL
              /\ req[c].url = createdURL
              /\ req[c].contentType = Header("application/json")
              /\ req[c].authorization =
                    IF gc.authorization # "nil" THEN Header(githubToken) ELSE NoHeader

C13_Witness ==
    \E c \in Callers :
        /\ pc[c] = "afterDo"
        /\ roundTrip[c].done
        /\ req[c].authorization = Header("token this-aint-no-party")

(***************************************************************************)
(* C14: the body of every request is the envelope whose query field is the *)
(* normalized query text (for the two-line text of the model: its tokens   *)
(* joined by single spaces) and whose variables field holds exactly the    *)
(* name/value pairs of the caller's variables, none added, dropped or      *)
(* changed.                                                                *)
(***************************************************************************)
C14_RequestBody ==
    \A c \in Callers :
        ~req[c].isnil =>
            /\ req[c].body.query = packQuery(queryStr[c])
            /\ queryStr[c] = <<"q", " ", "{", "\n", "\t", "a", " ", " ", "}", "\n">>
                  => req[c].body.query = <<"q", " ", "{", " ", "a", " ", "}">>
            /\ DOMAIN req[c].body.variables.m = DOMAIN queryParms[c].m
            /\ \A k \in DOMAIN queryParms[c].m :
                  req[c].body.variables.m[k] = queryParms[c].m[k]

C14_Witness ==
    \E c \in Callers :
        /\ pc[c] = "afterDo"
        /\ Len(queryStr[c]) > 1
        /\ DOMAIN queryParms[c].m = {"owner", "name"}
        /\ req[c].body.variables.m["owner"] = "mikebway"

(***************************************************************************)
(* C15: for every text s, packQuery(s) has no two consecutive spaces, no   *)
(* leading or trailing space and no white space other than the single      *)
(* space; split on single spaces it gives exactly the tokens of s, the     *)
(* maximal runs of characters that are not white space, in their order;    *)
(* a text with no token gives the empty string.                            *)
(***************************************************************************)
\* the maximal runs of characters of s outside seps, as <<first, last>>
Runs(s, seps) ==
    { r \in (1..Len(s)) \X (1..Len(s)) :
        /\ r[1] <= r[2]
        /\ \A k \in r[1]..r[2] : s[k] \notin seps
        /\ r[1] = 1 \/ s[r[1] - 1] \in seps
        /\ r[2] = Len(s) \/ s[r[2] + 1] \in seps }

\* those runs as strings, in the order they stand in s
TokensBy(s, seps) ==
    [k \in 1..Cardinality(Runs(s, seps)) |->
        LET r == CHOOSE x \in Runs(s, seps) :
                    Cardinality({y \in Runs(s, seps) : y[1] < x[1]}) = k - 1
        IN  SubSeq(s, r[1], r[2])]

C15_PackQuery ==
    output.done =>
        LET o == output.str
        IN  /\ \A i \in 1..(Len(o) - 1) : ~(o[i] = " " /\ o[i + 1] = " ")
            /\ o # <<>> => (o[1] # " " /\ o[Len(o)] # " ")
            /\ \A i \in 1..Len(o) : o[i] \in WhiteSpace => o[i] = " "
            /\ TokensBy(o, {" "}) = TokensBy(input, WhiteSpace)
            /\ TokensBy(input, WhiteSpace) = <<>> => o = <<>>

C15_Witness ==
    /\ output.done
    /\ input = <<"\t", "a", "\n", "b">>
    /\ output.str = <<"a", " ", "b">>

(***************************************************************************)
(* C16: a 200 answer whose body, read whole, is not an envelope object     *)
(* (not JSON at all or empty, the JSON value null, an array or a scalar,   *)
(* or an object whose errors field is not an array of objects) makes Query *)
(* return a DecodeError, not success.  Fails: for the body null            *)
(* json.Unmarshal returns no error and Query returns success.              *)
(***************************************************************************)
C16_MalformedBody ==
    \A c \in Callers :
        ( /\ Ended(c)
          /\ Answered200(c)
          /\ roundTrip[c].resp.readErr = ""
          /\ \/ roundTrip[c].resp.Body.kind \in {"syntax", "null", "scalar"}
             \/ roundTrip[c].resp.Body.errors.k = "scalar" )
        => ErrorKind(ret[c]) = "DecodeError"

(***************************************************************************)
(* C17: a client-side timeout at any point of the round trip (connecting,  *)
(* waiting for the response, reading the body of a 200 answer) makes Query *)
(* return a TransportError.  Fails: the error of reading the body is       *)
(* dropped, and the call ends with a DecodeError on the part of the body   *)
(* that arrived, or with success.                                          *)
(***************************************************************************)
C17_Timeout ==
    \A c \in Callers :
        ( /\ Ended(c)
          /\ roundTrip[c].done
          /\ \/ roundTrip[c].err = "timeout"
             \/ /\ roundTrip[c].err = ""
                /\ roundTrip[c].resp.StatusCode = 200
                /\ roundTrip[c].resp.readErr # "" )
        => ErrorKind(ret[c]) = "TransportError"

(***************************************************************************)
(* C12: the credential is write-only.  Two handles that differ only in     *)
(* their credential, given the same call and the same answer of the        *)
(* endpoint, show the caller the same things: the same GetTargetURL, the   *)
(* same return value and error text of Query, the same QueryResponse       *)
(* afterwards.  The two requests differ in the Authorization header at     *)
(* most.                                                                   *)
(***************************************************************************)
\* both the call and its replay have ended
BothEnded == Ended("c1") /\ Ended("c2")

C12_CredentialWriteOnly ==
    /\ TwinClient.targetURL = GetTargetURL
    /\ BothEnded =>
          /\ ret["c2"] = ret["c1"]
          /\ response["c2"] = response["c1"]
          /\ dataStruct["c2"] = dataStruct["c1"]
          /\ [req["c2"] EXCEPT !.authorization = req["c1"].authorization] = req["c1"]

C12_Witness ==
    /\ BothEnded
    /\ ~req["c1"].isnil
    /\ req["c1"].authorization.set
    /\ req["c2"].authorization.set
    /\ req["c1"].authorization # req["c2"].authorization
    /\ ErrorKind(ret["c1"]) = "TransportError"

(***************************************************************************)
(* C18: the same Query call made twice, the endpoint answering the same    *)
(* both times, leaves two equal QueryResponses (data and errors) and       *)
(* returns the same value, whether the second call is given a new          *)
(* QueryResponse or the one of the first (the QueryResponses are compared  *)
(* when the calls succeed).  Fails: a first call into a                    *)
(* QueryResponse that an earlier call has filled keeps what the answer     *)
(* does not overwrite, and a second call into a new one does not have it.  *)
(***************************************************************************)
C18_Idempotent ==
    ( /\ BothEnded
      /\ req["c2"] = req["c1"]
      /\ roundTrip["c2"] = roundTrip["c1"] )
    => /\ ret["c2"] = ret["c1"]
       /\ ErrorKind(ret["c1"]) = "success" =>
             /\ response["c2"] = response["c1"]
             /\ dataStruct["c2"] = dataStruct["c1"]

(***************************************************************************)
(* C19: concurrent Query calls on one handle, each with its own            *)
(* QueryResponse, do not interfere.  Under every interleaving a call that  *)
(* has ended returned what it returns when run alone on its own round trip *)
(* and left in its own QueryResponse what that answer leaves there; a step *)
(* of one call changes nothing of another call or its QueryResponse, and   *)
(* no step changes the handle or the credential.                           *)
(***************************************************************************)
\* what the call of caller c gives when it runs alone
Alone(c) == queryOutcome(roundTrip[c], pre[c].response, pre[c].dataStruct)

OwnOutcome(c) ==
    /\ (Ended(c) /\ doCalls[c] = 1) =>
          /\ roundTrip[c].done
          /\ ret[c] = Alone(c).ret
          /\ response[c] = Alone(c).response
          /\ dataStruct[c] = Alone(c).dataStruct
    /\ (pc[c] \in {"inDo", "afterDo"} \/ (Ended(c) /\ doCalls[c] = 0)) => TargetUntouched(c)

\* a step in which caller c does not move leaves everything of c as it was
OthersKeep(c) ==
    pc'[c] = pc[c] =>
        /\ response'[c] = response[c]
        /\ dataStruct'[c] = dataStruct[c]
        /\ ret'[c] = ret[c]
        /\ req'[c] = req[c]
        /\ roundTrip'[c] = roundTrip[c]

C20_Returns ==
    /\ [](\A c \in Callers :
            /\ Ended(c) => ret[c].state = "returned"
            /\ (Ended(c) /\ doCalls[c] = 1) => roundTrip[c].done
            /\ ~Ended(c) => ret[c] = NoReturn)
    /\ \A c \in Callers : (pc[c] \in {"inDo", "afterDo"}) ~> Ended(c)

(***************************************************************************)
(* C23: after a successful Query answered with an envelope, the Errors of  *)
(* the caller's QueryResponse are the errors array of that answer, and     *)
(* there are none when the array is absent or empty, also when the         *)
(* QueryResponse held the errors of an earlier call.  Fails: an answer     *)
(* without an errors field leaves the earlier errors in place.             *)
(***************************************************************************)
C23_NoStaleErrors ==
    \A c \in Callers :
        ( /\ Ended(c)
          /\ Answered200(c)
          /\ ErrorKind(ret[c]) = "success"
          /\ roundTrip[c].resp.Body.kind = "object" )
        => response[c].Errors.items =
              IF roundTrip[c].resp.Body.errors.k = "array"
              THEN roundTrip[c].resp.Body.errors.items
              ELSE <<>>

(***************************************************************************)
(* C24: after a successful Query on a QueryResponse whose Data referred to *)
(* the caller's structure, Data refers to it still, so that the caller's   *)
(* type assertion succeeds, unless the answer's data field is JSON null:   *)
(* then Data is nil and the type assertion fails.                          *)
(***************************************************************************)
\* the call succeeded and Data referred to the caller's structure before it
SucceededOnPtr(c) ==
    /\ Ended(c)
    /\ Answered(c)
    /\ ErrorKind(ret[c]) = "success"
    /\ pre[c].response.Data = DataPtr

\* the answer read by the call is an envelope whose data field is null
DataIsNull(c) ==
    /\ readAll(roundTrip[c].resp).kind = "object"
    /\ readAll(roundTrip[c].resp).data.k = "null"

C24_DataKeptUnlessNull ==
    \A c \in Callers :
        SucceededOnPtr(c) =>
            response[c].Data = IF DataIsNull(c) THEN DataNil ELSE DataPtr

C24_Witness ==
    \E c \in Callers :
        /\ SucceededOnPtr(c)
        /\ DataIsNull(c)
        /\ response[c].Data = DataNil

\* C24 as stated: Data refers to the caller's structure after every success
C24_DataKept ==
    \A c \in Callers : SucceededOnPtr(c) => response[c].Data = DataPtr

(***************************************************************************)
(* C25: when Query returns an error the caller's QueryResponse is as it    *)
(* was before the call, for a SerializationError, a TransportError, an     *)
(* AuthorizationError, a StatusError, and a DecodeError of a body that is  *)
(* not JSON or not an object.  A DecodeError of an envelope with a value   *)
(* that does not fit can leave the values that were decoded around it.     *)
(***************************************************************************)
\* the call returned an error of one of the five kinds
ReturnedError(c) ==
    /\ Ended(c)
    /\ ErrorKind(ret[c]) \in {"SerializationError", "TransportError", "AuthorizationError",
                               "StatusError", "DecodeError"}

\* the error is of a value inside an envelope that does not fit its target
MisfitInEnvelope(c) ==
    /\ ErrorKind(ret[c]) = "DecodeError"
    /\ readAll(roundTrip[c].resp).kind = "object"

C25_FrameOnError ==
    \A c \in Callers :
        (ReturnedError(c) /\ ~MisfitInEnvelope(c)) => TargetUntouched(c)

C25_Witness ==
    \E c \in Callers :
        /\ ReturnedError(c)
        /\ ErrorKind(ret[c]) = "DecodeError"
        /\ ~MisfitInEnvelope(c)
        /\ pre[c].response.Errors # NilSlice
        /\ TargetUntouched(c)

\* C25 as stated: untouched after an error of any kind
C25_FrameOnAnyError ==
    \A c \in Callers : ReturnedError(c) => TargetUntouched(c)

(***************************************************************************)
(* C26: Query does not modify the inputs it is given by reference.  While  *)
(* a call is under way and when it has ended, whatever its outcome, the    *)
(* caller's query text is the text as the caller wrote it (not the packed  *)
(* text the request carries) and the caller's variables are the mapping    *)
(* the caller made; no step of the call changes either.                    *)
(***************************************************************************)
InputsAsGiven(c) ==
    pc[c] # "idle" =>
        /\ queryStr[c] \in QueryTexts
        /\ queryParms[c] \in ParmsDomain
        /\ (~req[c].isnil /\ req[c].body.query = <<"q", " ", "{", " ", "a", " ", "}">>)
              => queryStr[c] = <<"q", " ", "{", "\n", "\t", "a", " ", " ", "}", "\n">>
        /\ ~req[c].isnil => req[c].body.variables.m = queryParms[c].m

InputsKept(c) ==
    (pc[c] # "idle" /\ pc'[c] # "idle") =>
        /\ queryStr'[c] = queryStr[c]
        /\ queryParms'[c] = queryParms[c]

C26_InputsUnchanged ==
    /\ [](\A c \in Callers : InputsAsGiven(c))
    /\ [][\A c \in Callers : InputsKept(c)]_vars

C26_Witness ==
    \E c \in Callers :
        /\ Ended(c)
        /\ ErrorKind(ret[c]) = "success"
        /\ req[c].body.query = <<"q", " ", "{", " ", "a", " ", "}">>
        /\ queryStr[c] # req[c].body.query
        /\ DOMAIN queryParms[c].m = {"owner", "name"}

(***************************************************************************)
(* C27: when httpClient.Do gave a response its body is closed exactly once *)
(* by the time Query returns, whatever the path (401, another status that  *)
(* is not 200, a decode failure, success); it is never closed when         *)
(* httpClient.Do failed, nor when no request was made.                     *)
(***************************************************************************)
C27_BodyClosedOnce ==
    \A c \in Callers :
        /\ (Ended(c) /\ Answered(c)) => closes[c] = 1
        /\ (Ended(c) /\ ~Answered(c)) => closes[c] = 0
        /\ ~Ended(c) => closes[c] = 0

C27_Witness ==
    \E c \in Callers :
        /\ Ended(c)
        /\ Answered(c)
        /\ ErrorKind(ret[c]) = "StatusError"
        /\ closes[c] = 1
        /\ bodyReads[c] = 0

(***************************************************************************)
(* C30: packQuery treats a run of white space inside a double-quoted       *)
(* string literal as it treats one outside: each literal of the packed     *)
(* text is the literal the caller wrote with every run of white space      *)
(* reduced to one space, so a literal sent to the server can differ from   *)
(* the literal written.                                                    *)
(***************************************************************************)
\* the positions of the double quotes of s, in order
QuoteAt(s, k) ==
    CHOOSE i \in 1..Len(s) :
        /\ s[i] = "\""
        /\ Cardinality({j \in 1..(i - 1) : s[j] = "\""}) = k - 1

\* the texts between the first and second quote, the third and fourth, ...
Literals(s) ==
    [k \in 1..(Cardinality({i \in 1..Len(s) : s[i] = "\""}) \div 2) |->
        SubSeq(s, QuoteAt(s, 2 * k - 1) + 1, QuoteAt(s, 2 * k) - 1)]

\* t with every run of white space replaced by one space
RECURSIVE Collapse(_)
Collapse(t) ==
    IF t = <<>> THEN <<>>
    ELSE LET front == Collapse(SubSeq(t, 1, Len(t) - 1))
             last == t[Len(t)]
         IN  IF last \notin WhiteSpace THEN Append(front, last)
             ELSE IF Len(t) > 1 /\ t[Len(t) - 1] \in WhiteSpace THEN front
             ELSE Append(front, " ")

C30_LiteralsPacked ==
    output.done =>
        /\ Len(Literals(output.str)) = Len(Literals(input))
        /\ \A k \in 1..Len(Literals(input)) :
              Literals(output.str)[k] = Collapse(Literals(input)[k])

C30_Witness ==
    /\ output.done
    /\ input = <<"\"", " ", "\t", "\"">>
    /\ Literals(input) = << <<" ", "\t">> >>
    /\ Literals(output.str) = << <<" ">> >>

(***************************************************************************)
(* C21: GetRepoData, after a successful Query, reports a failure whose     *)
(* message starts with "Errors found in GraphQL Response:" and lists every *)
(* protocol error message in order, with no result, exactly when the       *)
(* decoded errors sequence is not empty; an answer whose errors field is   *)
(* absent or an empty array is not reported as that failure.  Fails: an    *)
(* empty errors array is decoded to an empty slice that is not nil, and    *)
(* GetRepoData tests for nil.                                              *)
(***************************************************************************)
\* GetRepoData has returned after a Query that succeeded
ReturnedAfterSuccess ==
    /\ repoData.returned
    /\ ErrorKind(ret["c1"]) = "success"

\* GetRepoData reported the protocol errors
ErrorsReported ==
    /\ ~repoData.err.isnil
    /\ repoData.err.text[1] = "Errors found in GraphQL Response:\n\n"

C21_ProtocolErrors ==
    ReturnedAfterSuccess =>
        /\ ErrorsReported <=> response["c1"].Errors.items # <<>>
        /\ ErrorsReported =>
              /\ repoData.result.isnil
              /\ Len(repoData.err.text) = 1 + 2 * Len(response["c1"].Errors.items)
              /\ \A i \in 1..Len(response["c1"].Errors.items) :
                    /\ repoData.err.text[2 * i] = response["c1"].Errors.items[i]
                    /\ repoData.err.text[2 * i + 1] = "\n"
        /\ ( /\ readAll(roundTrip["c1"].resp).kind = "object"
             /\ readAll(roundTrip["c1"].resp).errors \in {ErrorsAbsent, ErrorsArray(<<>>)} )
           => ~ErrorsReported

(***************************************************************************)
(* C29: once the call of GetRepoData is over, it has returned exactly one  *)
(* of a result and an error; a failure of Query is the error returned,     *)
(* unchanged; and a result has one RecentCommits entry for each decoded    *)
(* history edge, in the same order.  Fails: for a URL that does not parse  *)
(* Query panics (C6) and GetRepoData returns neither.                      *)
(***************************************************************************)
\* the call of GetRepoData is over, by a return or by a panic passing through
GetRepoDataOver ==
    /\ mainPc \in {"over", "panicked"}
    /\ pc["c1"] = "returned"

C29_ResultOrError ==
    GetRepoDataOver =>
        /\ repoData.returned
        /\ repoData.result.isnil # repoData.err.isnil
        /\ ret["c1"].errType # "nil" =>
              /\ repoData.result.isnil
              /\ repoData.err.cause = ret["c1"]
              /\ repoData.err.text = <<ret["c1"].err>>
        /\ ~repoData.result.isnil =>
              /\ Len(repoData.result.RecentCommits) = Len(dataStruct["c1"].edges)
              /\ \A i \in 1..Len(dataStruct["c1"].edges) :
                    repoData.result.RecentCommits[i].Headline = dataStruct["c1"].edges[i]

(***************************************************************************)
(* C28: when the environment variable of the access token is unset or      *)
(* empty, runDemo returns an error naming that variable; no GraphQL        *)
(* request has been made or sent and the process-wide TLS configuration    *)
(* has not been changed, even under -skipverify.                           *)
(***************************************************************************)
\* runDemo has been called without a token in the environment
RanWithoutToken ==
    /\ args.parse = "ok"
    /\ args.token = ""
    /\ mainPc # "start"

C28_TokenFirst ==
    RanWithoutToken =>
        /\ mainPc = "over"
        /\ ~runErr.isnil
        /\ \E i \in 1..Len(runErr.text) : runErr.text[i] = args.tokenEnv
        /\ req["c1"].isnil
        /\ doCalls["c1"] = 0
        /\ pc["c1"] = "idle"
        /\ gc = NoClient
        /\ insecureSkipVerify = FALSE

C28_Witness ==
    /\ RanWithoutToken
    /\ args.skipverify
    /\ args.tokenEnv = "CORP_TOKEN"
    /\ runErr.text = <<"the ", "CORP_TOKEN", " environment variable is not set">>
    /\ insecureSkipVerify = FALSE

(***************************************************************************)
(* C22: a run of main calls the exit handler exactly once: never more than *)
(* once and never with a code other than 0 and 2, and when the run is over *)
(* it has called it, with 0 when runDemo returned no error and with 2,     *)
(* after printing the failure and the usage, when it returned one.  Fails: *)
(* a run ended by flag.Parse or by the panic of Query (C6) has not called  *)
(* the handler.                                                            *)
(***************************************************************************)
\* the run of main is over: it returned, the process exited, or it panicked
MainOver == mainPc \in {"over", "exitedInParse", "panicked"}

C22_ExitsOnce ==
    /\ Len(exitCodes) <= 1
    /\ \A i \in 1..Len(exitCodes) : exitCodes[i] \in {0, 2}
    /\ MainOver =>
          /\ Len(exitCodes) = 1
          /\ exitCodes[1] = 0 <=> runErr.isnil
          /\ exitCodes[1] = 2 <=> ~runErr.isnil
          /\ exitCodes[1] = 2 =>
                stdout = <<"GraphQL Client Demo FAILED", "usage">>
====
